---- MODULE Spec2Model ----
(***************************************************************************)
(* A model of the silly-goose rigid-body simulation (src/src/physics.rs,   *)
(* driven by src/src/main.rs): spherical bodies bouncing inside a          *)
(* spherical border, with the bodies' motion copied onto pre-generated     *)
(* sphere meshes.                                                          *)
(*                                                                         *)
(* An f32 is modelled bit for bit.  A value is the integer of its IEEE-754 *)
(* binary32 bit pattern without the sign bit, negated for a negative       *)
(* number: 0 is 0.0, 1065353216 (0x3F800000) is 1.0, -1065353216 is -1.0,  *)
(* PInf is +infinity and every NaN is the one number NaN, which carries no  *)
(* sign.  The order of the integers is then the order of the numbers.      *)
(* Negative zero (0x80000000) is the number NegZero, below every other     *)
(* value; a comparison takes it for 0.0, as the hardware does.  Every      *)
(* operation rounds as the hardware does (to nearest, ties to even) and    *)
(* gives a zero the sign IEEE-754 gives it, so that a comparison or a      *)
(* division in the model falls the way it falls in the program.  A Vec3 is *)
(* a triple <<x, y, z>>.  Lists are 1-based sequences; the indices the     *)
(* code uses (0-based) are kept for loop variables, so body k of the code  *)
(* is physics_bodies[k+1].                                                 *)
(***************************************************************************)
EXTENDS Integers, Sequences, FiniteSets, TLC

VARIABLES
    physics_bodies,       \* Scene::physics_bodies
    static_meshes,        \* Scene::static_meshes
    dynamic_meshes,       \* Scene::dynamic_meshes
    next_static_vertex,   \* Scene::next_static_vertex
    next_static_index,    \* Scene::next_static_index
    next_dynamic_vertex,  \* Scene::next_dynamic_vertex
    next_dynamic_index,   \* Scene::next_dynamic_index
    pc,                   \* where the driver / update_physics stands
    pass,                 \* relaxation passes completed in this update_physics
    bi,                   \* index of the next body of the border loop
    cur,                  \* <<i, a, b>>: the pair loop's i and the pair (b1, b2)
    dtv,                  \* the dt argument of the running update_physics
    steps,                \* update_physics calls started so far
    pre,                  \* physics_bodies as they were before the last call
    pass_pre,             \* physics_bodies as they were before the current pass
    last,                 \* the last call made: [op, a, b]
    calls                 \* collide_with calls per pair in the current pass

vars == <<physics_bodies, static_meshes, dynamic_meshes, next_static_vertex,
          next_static_index, next_dynamic_vertex, next_dynamic_index,
          pc, pass, bi, cur, dtv, steps, pre, pass_pre, last, calls>>

--------------------------------------------------------------------------
(* IEEE-754 binary32 arithmetic, round to nearest, ties to even.  Every  *)
(* intermediate value is handed on as an operator argument.              *)

\* -0.0, the one f32 whose bits without the sign are those of another
\* number's (0.0): it is held as an integer that stands for no other f32
NegZero == -2147483647

\* the bits of a without the sign bit
Abs(x) == IF x = NegZero THEN 0 ELSE IF x < 0 THEN -x ELSE x

\* +infinity: exponent field 255, fraction 0
PInf == 2139095040

\* the quiet NaN: exponent field 255, fraction 2^22
NaN == 2143289344

IsNaN(a) == Abs(a) > PInf

IsInf(a) == Abs(a) = PInf

\* 0.0 or -0.0
IsZero(a) == Abs(a) = 0

\* the sign of a number (-1 for -0.0); the one NaN of the model carries no
\* sign, and no operation of the program reads the sign of a NaN
Sign(a) == IF a < 0 THEN -1 ELSE 1

\* the zero of sign s
Zero(s) == IF s < 0 THEN NegZero ELSE 0

\* the place of a in the order of the numbers: -0.0 equals 0.0
Ord(a) == IF a = NegZero THEN 0 ELSE a

RECURSIVE BitLenDown(_, _)
\* the number of bits of m, 0 <= m < 2^k
BitLenDown(m, k) ==
    IF k = 0 \/ m >= 2^(k - 1) THEN k ELSE BitLenDown(m, k - 1)

\* the number of bits of m, 0 <= m < 2^31
BitLen(m) == IF m >= 2^30 THEN 31 ELSE BitLenDown(m, 30)

\* the significand and the exponent of the magnitude bits b: a finite f32
\* is Sign(a) * Mant(a) * 2^Exp(a); exponent field 0 holds the subnormals
MantBits(b) == IF b < 2^23 THEN b ELSE (b % 2^23) + 2^23

ExpBits(b) == IF b < 2^23 THEN -149 ELSE (b \div 2^23) - 150

Mant(a) == MantBits(Abs(a))

Exp(a) == ExpBits(Abs(a))

\* q, or the next integer when the remainder r of q is more than half, or
\* is half and q is odd
RoundEven(q, r, half) ==
    IF r > half \/ (r = half /\ q % 2 = 1) THEN q + 1 ELSE q

\* q with its last bit set when bits r were shifted out of it (sticky bit)
Sticky(q, r) == IF r # 0 /\ q % 2 = 0 THEN q + 1 ELSE q

\* the number of bits to drop from a significand of L bits at exponent e:
\* down to 24 bits, more for a subnormal result
PackShift(L, e) == IF L - 24 > -149 - e THEN L - 24 ELSE -149 - e

\* m * 2^(-shift), rounded to the nearest integer, ties to even
PackRound(m, shift) ==
    IF shift <= 0 THEN m * 2^(-shift)
    ELSE IF shift >= 32 THEN 0
    ELSE IF shift = 31 THEN (IF m > 2^30 THEN 1 ELSE 0)
    ELSE RoundEven(m \div 2^shift, m % 2^shift, 2^(shift - 1))

\* the bits of s * mant * 2^rexp for mant < 2^24: overflow to infinity,
\* exponent field 0 for the subnormals
PackBits(s, mant, rexp) ==
    IF mant >= 2^23
    THEN IF rexp + 150 >= 255 THEN s * PInf
         ELSE s * ((rexp + 150) * 2^23 + (mant - 2^23))
    ELSE IF mant = 0 THEN Zero(s)
    ELSE s * mant

\* rounding may carry the significand to 2^24
PackCarry(s, mant0, rexp) ==
    IF mant0 = 2^24 THEN PackBits(s, 2^23, rexp + 1)
    ELSE PackBits(s, mant0, rexp)

PackShifted(s, m, e, shift) == PackCarry(s, PackRound(m, shift), e + shift)

\* the f32 nearest to s * m * 2^e (s = 1 or -1, 0 <= m < 2^31), ties to the
\* even fraction, overflow to infinity, gradual underflow to the zero of
\* sign s
Pack(s, m, e) ==
    IF m = 0 THEN Zero(s) ELSE PackShifted(s, m, e, PackShift(BitLen(m), e))

\* unary -: the sign bit flipped, also that of a zero
FNeg(a) == IF IsNaN(a) THEN NaN ELSE IF IsZero(a) THEN Zero(-Sign(a)) ELSE -a

\* the significand B0 shifted right by d bits, the last bit sticky
AddAlign(B0, d) ==
    IF d >= 28 THEN 1 ELSE Sticky(B0 \div 2^d, B0 % 2^d)

\* the sum of sa * A and sb * B, A >= B; an exact difference of 0 is 0.0
AddMants(sa, sb, A, B, e) ==
    IF sa = sb THEN Pack(sa, A + B, e)
    ELSE IF A = B THEN 0
    ELSE Pack(sa, A - B, e)

\* a + b for finite nonzero a, b with |a| >= |b|: b is aligned to a with
\* three extra bits, the last one sticky
AddOrdered(a, b) ==
    AddMants(Sign(a), Sign(b), Mant(a) * 8,
             AddAlign(Mant(b) * 8, Exp(a) - Exp(b)), Exp(a) - 3)

FAdd(a, b) ==
    IF IsNaN(a) \/ IsNaN(b) THEN NaN
    ELSE IF IsInf(a) THEN (IF IsInf(b) /\ a # b THEN NaN ELSE a)
    ELSE IF IsInf(b) THEN b
    ELSE IF IsZero(a)
         THEN (IF IsZero(b) THEN (IF a = b THEN a ELSE 0) ELSE b)
    ELSE IF IsZero(b) THEN a
    ELSE AddOrdered(IF Abs(a) < Abs(b) THEN b ELSE a,
                    IF Abs(a) < Abs(b) THEN a ELSE b)

FSub(a, b) == FAdd(a, FNeg(b))

\* the shift that brings the high word hi < 2^24 of a product, with bits of
\* the low word, to 30 bits
MulTopShift(k) == IF 30 - k < 24 THEN 30 - k ELSE 24

MulTopLen(hi) ==
    IF hi >= 2^23 THEN 24 ELSE IF hi >= 2^22 THEN 23 ELSE BitLen(hi)

MulShifted(s, hi, lo, e, sh) ==
    Pack(s, Sticky(hi * 2^sh + (lo \div 2^(24 - sh)), lo % 2^(24 - sh)),
         e + 24 - sh)

\* s * (hi * 2^24 + lo) * 2^e: the top 30 bits and a sticky bit are kept
MulHiLo(s, hi, lo, e) == MulShifted(s, hi, lo, e, MulTopShift(MulTopLen(hi)))

\* the 48-bit product high * 2^24 + mid * 2^12 + low as hi * 2^24 + lo
MulSum(s, high, midhi, t, e) ==
    MulHiLo(s, high + midhi + (t \div 2^24), t % 2^24, e)

MulParts(s, high, mid, low, e) ==
    MulSum(s, high, mid \div 4096, (mid % 4096) * 4096 + low, e)

\* the product of the significands a1 * 2^12 + a0 and b1 * 2^12 + b0
MulLimbs(s, a1, a0, b1, b0, e) ==
    MulParts(s, a1 * b1, a1 * b0 + a0 * b1, a0 * b0, e)

MulMants(s, ma, mb, e) ==
    MulLimbs(s, ma \div 4096, ma % 4096, mb \div 4096, mb % 4096, e)

\* a * b for finite nonzero a, b
MulFinite(a, b) ==
    MulMants(Sign(a) * Sign(b), Mant(a), Mant(b), Exp(a) + Exp(b))

FMul(a, b) ==
    IF IsNaN(a) \/ IsNaN(b) THEN NaN
    ELSE IF IsInf(a) \/ IsInf(b)
         THEN (IF IsZero(a) \/ IsZero(b) THEN NaN
               ELSE Sign(a) * Sign(b) * PInf)
    ELSE IF IsZero(a) \/ IsZero(b) THEN Zero(Sign(a) * Sign(b))
    ELSE MulFinite(a, b)

\* the significand and exponent of a finite nonzero f32 with the
\* significand shifted into 2^23 .. 2^24 - 1
NormShift(m) == 24 - BitLen(m)

NormMant(a) == Mant(a) * 2^NormShift(Mant(a))

NormExp(a) == Exp(a) - NormShift(Mant(a))

RECURSIVE DivChunks(_, _, _, _)
\* <<quotient, remainder>> of long division by mb, 7 bits at a time, for i
\* more chunks
DivChunks(rem, mb, i, Q) ==
    IF i = 0 THEN <<Q, rem>>
    ELSE DivChunks((rem * 128) % mb, mb, i - 1, Q * 128 + ((rem * 128) \div mb))

DivPack(s, qr, e) == Pack(s, qr[1] * 2 + (IF qr[2] # 0 THEN 1 ELSE 0), e)

\* a / b for finite nonzero a, b: a 29-bit quotient and a sticky bit
DivFinite(a, b) ==
    DivPack(Sign(a) * Sign(b), DivChunks(NormMant(a), NormMant(b), 4, 0),
            NormExp(a) - NormExp(b) - 29)

\* x / 0 is an infinity, 0 / 0 and inf / inf are NaN; the sign of an
\* infinity or a zero is the product of the signs, those of zeros included
FDiv(a, b) ==
    IF IsNaN(a) \/ IsNaN(b) THEN NaN
    ELSE IF IsInf(a) THEN (IF IsInf(b) THEN NaN ELSE Sign(a) * Sign(b) * PInf)
    ELSE IF IsInf(b) THEN Zero(Sign(a) * Sign(b))
    ELSE IF IsZero(b)
         THEN (IF IsZero(a) THEN NaN ELSE Sign(a) * Sign(b) * PInf)
    ELSE IF IsZero(a) THEN Zero(Sign(a) * Sign(b))
    ELSE DivFinite(a, b)

\* bit pair i of the 52-bit number m2 * 2^26
SqrtPair(m2, i) == IF i <= 12 THEN (m2 \div 4^(12 - i)) % 4 ELSE 0

RECURSIVE SqrtBits(_, _, _, _)
\* <<root, rem>> after bit pairs i .. 25 have been brought down into rem:
\* the digit-by-digit integer square root
SqrtBits(m2, i, root, rem) ==
    IF i > 25 THEN <<root, rem>>
    ELSE IF rem * 4 + SqrtPair(m2, i) >= root * 4 + 1
         THEN SqrtBits(m2, i + 1, root * 2 + 1,
                       rem * 4 + SqrtPair(m2, i) - (root * 4 + 1))
         ELSE SqrtBits(m2, i + 1, root * 2, rem * 4 + SqrtPair(m2, i))

SqrtPack(rr, e2) ==
    Pack(1, rr[1] * 2 + (IF rr[2] # 0 THEN 1 ELSE 0), ((e2 - 26) \div 2) - 1)

\* the root of m * 2^e with the exponent made even
SqrtNorm(m, e) ==
    IF e % 2 # 0 THEN SqrtPack(SqrtBits(m * 2, 0, 0, 0), e - 1)
    ELSE SqrtPack(SqrtBits(m, 0, 0, 0), e)

\* f32::sqrt: NaN for a negative number, -0.0 for -0.0
Sqrt(a) ==
    IF IsNaN(a) THEN NaN
    ELSE IF IsZero(a) THEN a
    ELSE IF a < 0 THEN NaN
    ELSE IF IsInf(a) THEN a
    ELSE SqrtNorm(NormMant(a), NormExp(a))

\* comparisons: FALSE as soon as one side is NaN; -0.0 equals 0.0
FGt(a, b) == ~IsNaN(a) /\ ~IsNaN(b) /\ Ord(a) > Ord(b)

FLt(a, b) == ~IsNaN(a) /\ ~IsNaN(b) /\ Ord(a) < Ord(b)

FLe(a, b) == ~IsNaN(a) /\ ~IsNaN(b) /\ Ord(a) <= Ord(b)

FGe(a, b) == ~IsNaN(a) /\ ~IsNaN(b) /\ Ord(a) >= Ord(b)

FAbs(a) == IF IsNaN(a) THEN NaN ELSE Abs(a)

\* `n as f32` for an integer |n| < 2^30
FromInt(n) == Pack(Sign(n), IF n < 0 THEN -n ELSE n, 0)

\* the f32 a decimal literal n / d denotes (n, d < 2^24): the nearest one
Dec(n, d) == FDiv(FromInt(n), FromInt(d))

--------------------------------------------------------------------------
(* glam::Vec3, whose operations work component by component *)

VecIsNaN(v) == IsNaN(v[1]) \/ IsNaN(v[2]) \/ IsNaN(v[3])

VAdd(u, v) == <<FAdd(u[1], v[1]), FAdd(u[2], v[2]), FAdd(u[3], v[3])>>

VSub(u, v) == <<FSub(u[1], v[1]), FSub(u[2], v[2]), FSub(u[3], v[3])>>

VNeg(v) == <<FNeg(v[1]), FNeg(v[2]), FNeg(v[3])>>

\* v * s and s * v
VScale(v, s) == <<FMul(v[1], s), FMul(v[2], s), FMul(v[3], s)>>

\* v / s
VDiv(v, s) == <<FDiv(v[1], s), FDiv(v[2], s), FDiv(v[3], s)>>

\* x * x + y * y + z * z, summed from the left
Dot(u, v) ==
    FAdd(FAdd(FMul(u[1], v[1]), FMul(u[2], v[2])), FMul(u[3], v[3]))

Length(v) == Sqrt(Dot(v, v))

Distance(u, v) == Length(VSub(u, v))

\* the literals 1.0, 2.0 and 0.5
One == FromInt(1)

Two == FromInt(2)

Half == Dec(1, 2)

\* Vec3::normalize is self * (1 / length): for the zero vector 0 * inf,
\* NaN in every component
Normalize(v) == VScale(v, FDiv(One, Length(v)))

ZERO == <<0, 0, 0>>

\* the Vec3 of the decimal literals x / d, y / d, z / d
DecVec(x, y, z, d) == <<Dec(x, d), Dec(y, d), Dec(z, d)>>

--------------------------------------------------------------------------
(* Constants of the program *)

\* std::f32::consts::PI, 3.14159274
PI == 1078530011

DT == Dec(1, 1000)

BORDER_RADIUS == Dec(85, 100)

BORDER_CENTER == <<0, 0, 0>>

BALL_RADIUS == Dec(4, 100)

BALL_START == <<0, Dec(75, 100), 0>>

SOLVER_ITERATIONS == 3

\* the border's 0.95 ("Elasticity")
ELASTICITY == Dec(95, 100)

\* collide_with's restitution, 0.95
RESTITUTION == Dec(95, 100)

\* the gravitational acceleration, 9.8
GRAVITY == Dec(98, 10)

--------------------------------------------------------------------------
(* PhysicsBody *)

PhysicsBodyNew(pos, radius) ==
    [pos |-> pos, radius |-> radius, velocity |-> ZERO, mass |-> One]

keep_within_border(b) ==
    LET distance_from_center == Distance(b.pos, BORDER_CENTER)
    IN  IF FGt(FAdd(distance_from_center, b.radius), BORDER_RADIUS)
        THEN LET dir == Normalize(VSub(b.pos, BORDER_CENTER))
                 normal == VNeg(dir)
                 vel_along_normal == Dot(b.velocity, normal)
                 reflected ==
                    VSub(b.velocity,
                         VScale(normal, FMul(Two, vel_along_normal)))
             IN  [b EXCEPT
                    !.pos = VAdd(BORDER_CENTER,
                                 VScale(dir, FSub(BORDER_RADIUS, b.radius))),
                    !.velocity = VScale(reflected, ELASTICITY)]
        ELSE b

\* variant of the overlap test that also takes touching bodies
Overlapping_le(s, o) == FLe(Distance(s.pos, o.pos), FAdd(s.radius, o.radius))

\* the overlap test of collide_with
Overlapping(s, o) == FLt(Distance(s.pos, o.pos), FAdd(s.radius, o.radius))

\* the normal and the relative velocity along it, as collide_with computes them
CollisionNormal(s, o) == Normalize(VSub(o.pos, s.pos))

VelocityAlongNormal(s, o) ==
    Dot(VSub(o.velocity, s.velocity), CollisionNormal(s, o))

\* variant of the early return with the comparison turned around
Separating_flipped(s, o) == FLt(VelocityAlongNormal(s, o), 0)

\* the early return of collide_with: the bodies are moving apart
Separating(s, o) == FGt(VelocityAlongNormal(s, o), 0)

ImpulseScalar(s, o) ==
    FDiv(FMul(FNeg(FAdd(One, RESTITUTION)), VelocityAlongNormal(s, o)),
         FAdd(FDiv(One, s.mass), FDiv(One, o.mass)))

SeparationVector(s, o) ==
    LET overlap == FSub(FAdd(s.radius, o.radius), Distance(s.pos, o.pos))
    IN  VScale(CollisionNormal(s, o), FMul(overlap, Half))

\* collide_with(self, other): the pair <<self', other'>>
collide_with(s, o) ==
    IF Overlapping(s, o)
    THEN IF Separating(s, o)
         THEN <<s, o>>
         ELSE LET impulse == VScale(CollisionNormal(s, o), ImpulseScalar(s, o))
                  separation_vector == SeparationVector(s, o)
              IN  << [s EXCEPT
                        !.velocity = VSub(s.velocity, VDiv(impulse, s.mass)),
                        !.pos = VSub(s.pos, separation_vector)],
                     [o EXCEPT
                        !.velocity = VAdd(o.velocity, VDiv(impulse, o.mass)),
                        !.pos = VAdd(o.pos, separation_vector)] >>
    ELSE <<s, o>>

--------------------------------------------------------------------------
(* Mesh.  A Vertex is modelled by its position; its color and normal are    *)
(* written once by Mesh::sphere and never read by the simulation.           *)

\* f32::sin of the angle (step as f32 * PI) / n as f32, the value the
\* program's build returns (the platform's sinf, which is within one unit in
\* the last place of the exact sine): row n = 1..16, column step + 1 for
\* step = 0..2n
SinTable ==
  <<
     <<0, -867941678, 876330286>>,
     <<0, 1065353216, -867941678, -1065353216, 876330286>>,
     <<0, 1063105496, 1063105495, -867941678, -1063105496, -1063105492,
       876330286>>,
     <<0, 1060439283, 1065353216, 1060439283, -867941678, -1060439285,
       -1065353216, -1060439279, 876330286>>,
     <<0, 1058437400, 1064532081, 1064532080, 1058437399, -867941678,
       -1058437402, -1064532082, -1064532080, -1058437401, 876330286>>,
     <<0, 1056964608, 1063105496, 1065353216, 1063105495, 1056964602,
       -867941678, -1056964611, -1063105496, -1065353216, -1063105492,
       -1056964600, 876330286>>,
     <<0, 1054746115, 1061692956, 1064932576, 1064932576, 1061692954,
       1054746117, -867941678, -1054746115, -1061692958, -1064932578,
       -1064932574, -1061692958, -1054746115, 876330286>>,
     <<0, 1053028118, 1060439283, 1064076126, 1065353216, 1064076126,
       1060439283, 1053028112, -867941678, -1053028117, -1060439285,
       -1064076129, -1065353216, -1064076125, -1060439279, -1053028117,
       876330286>>,
     <<0, 1051663684, 1059360187, 1063105496, 1065098333, 1065098332,
       1063105495, 1059360184, 1051663679, -867941678, -1051663692,
       -1059360189, -1063105496, -1065098333, -1065098331, -1063105496,
       -1059360183, -1051663676, 876330286>>,
     <<0, 1050556282, 1058437400, 1062149053, 1064532081, 1065353216,
       1064532080, 1062149051, 1058437399, 1050556283, -867941678,
       -1050556289, -1058437402, -1062149055, -1064532082, -1065353216,
       -1064532080, -1062149050, -1058437401, -1050556280, 876330286>>,
     <<0, 1049640769, 1057646448, 1061255374, 1063837093, 1065182448,
       1065182448, 1063837092, 1061255372, 1057646447, 1049640762,
       -883879756, -1049640768, -1057646450, -1061255377, -1063837092,
       -1065182449, -1065182448, -1063837092, -1061255374, -1057646442,
       -1049640759, 892268364>>,
     <<0, 1048871918, 1056964608, 1060439283, 1063105496, 1064781547,
       1065353216, 1064781546, 1063105495, 1060439283, 1056964602,
       1048871914, -867941678, -1048871919, -1056964611, -1060439282,
       -1063105496, -1064781547, -1065353216, -1064781546, -1063105492,
       -1060439279, -1056964600, -1048871926, 876330286>>,
     <<0, 1047858987, 1055780915, 1059701352, 1062383378, 1064262970,
       1065230891, 1065230891, 1064262969, 1062383379, 1059701352,
       1055780910, 1047858987, -867941678, -1047858999, -1055780915,
       -1059701354, -1062383380, -1064262969, -1065230891, -1065230891,
       -1064262969, -1062383376, -1059701354, -1055780915, -1047858981,
       876330286>>,
     <<0, 1046731911, 1054746115, 1059036423, 1061692956, 1063691750,
       1064932576, 1065353216, 1064932576, 1063691749, 1061692954,
       1059036419, 1054746117, 1046731911, -867941678, -1046731907,
       -1054746115, -1059036425, -1061692958, -1063691752, -1064932578,
       -1065353216, -1064932574, -1063691751, -1061692958, -1059036424,
       -1054746115, -1046731906, 876330286>>,
     <<0, 1045751502, 1053835209, 1058437400, 1061043902, 1063105496,
       1064532081, 1065261309, 1065261309, 1064532080, 1063105495,
       1061043901, 1058437399, 1053835207, 1045751496, -867941678,
       -1045751508, -1053835212, -1058437402, -1061043902, -1063105496,
       -1064532082, -1065261309, -1065261309, -1064532080, -1063105496,
       -1061043900, -1058437395, -1053835204, -1045751506, 876330286>>,
     <<0, 1044891074, 1053028118, 1057896922, 1060439283, 1062525746,
       1064076126, 1065030847, 1065353216, 1065030846, 1064076126,
       1062525744, 1060439283, 1057896921, 1053028112, 1044891073,
       -867941678, -1044891085, -1053028117, -1057896923, -1060439285,
       -1062525748, -1064076129, -1065030846, -1065353216, -1065030846,
       -1064076125, -1062525743, -1060439279, -1057896923, -1053028117,
       -1044891068, 876330286>>
  >>

\* f32::cos of the same angles, as the program's build returns it
CosTable ==
  <<
     <<1065353216, -1065353216, 1065353216>>,
     <<1065353216, -859553070, -1065353216, 843898414, 1065353216>>,
     <<1065353216, 1056964607, -1056964609, -1065353216, -1056964605,
       1056964614, 1065353216>>,
     <<1065353216, 1060439283, -859553070, -1060439283, -1065353216,
       -1060439281, 843898414, 1060439287, 1065353216>>,
     <<1065353216, 1062149053, 1050556281, -1050556283, -1062149054,
       -1065353216, -1062149052, -1050556270, 1050556286, 1062149052,
       1065353216>>,
     <<1065353216, 1063105495, 1056964607, -859553070, -1056964609,
       -1063105497, -1065353216, -1063105493, -1056964605, 843898414,
       1056964614, 1063105498, 1065353216>>,
     <<1065353216, 1063691749, 1059036423, 1046731914, -1046731912,
       -1059036426, -1063691749, -1065353216, -1063691749, -1059036420,
       -1046731885, 1046731949, 1059036421, 1063691749, 1065353216>>,
     <<1065353216, 1064076126, 1060439283, 1053028117, -859553070,
       -1053028120, -1060439283, -1064076128, -1065353216, -1064076126,
       -1060439281, -1053028107, 843898414, 1053028123, 1060439287,
       1064076127, 1065353216>>,
     <<1065353216, 1064341426, 1061428093, 1056964607, 1043452111,
       -1043452124, -1056964609, -1061428096, -1064341427, -1065353216,
       -1064341425, -1061428091, -1056964605, -1043452113, 1043452146,
       1056964605, 1061428096, 1064341427, 1065353216>>,
     <<1065353216, 1064532081, 1062149053, 1058437400, 1050556281,
       -859553070, -1050556283, -1058437403, -1062149054, -1064532080,
       -1065353216, -1064532079, -1062149052, -1058437397, -1050556270,
       843898414, 1050556286, 1058437404, 1062149052, 1064532081,
       1065353216>>,
     <<1065353216, 1064673621, 1062689892, 1059562740, 1054126405,
       1041349365, -1041349371, -1054126411, -1059562742, -1062689893,
       -1064673622, -1065353216, -1064673621, -1062689891, -1059562737,
       -1054126409, -1041349351, 1041349384, 1054126410, 1059562740,
       1062689896, 1064673622, 1065353216>>,
     <<1065353216, 1064781546, 1063105495, 1060439283, 1056964607,
       1048871915, -859553070, -1048871922, -1056964609, -1060439283,
       -1063105497, -1064781547, -1065353216, -1064781546, -1063105493,
       -1060439284, -1056964605, -1048871916, 843898414, 1048871917,
       1056964614, 1060439287, 1063105498, 1064781545, 1065353216>>,
     <<1065353216, 1064865701, 1063431487, 1061133927, 1058106544,
       1052085957, 1039588336, -1039588348, -1052085960, -1058106544,
       -1061133927, -1063431488, -1064865701, -1065353216, -1064865700,
       -1063431487, -1061133925, -1058106542, -1052085962, -1039588340,
       1039588344, 1052085963, 1058106548, 1061133925, 1063431487,
       1064865701, 1065353216>>,
     <<1065353216, 1064932576, 1063691749, 1061692956, 1059036423,
       1054746111, 1046731914, -859553070, -1046731912, -1054746118,
       -1059036426, -1061692959, -1063691749, -1064932576, -1065353216,
       -1064932576, -1063691749, -1061692954, -1059036420, -1054746105,
       -1046731885, 889402233, 1046731949, 1054746106, 1059036421,
       1061692955, 1063691749, 1064932576, 1065353216>>,
     <<1065353216, 1064986594, 1063902749, 1062149053, 1059802148,
       1056964607, 1050556281, 1037439743, -1037439755, -1050556283,
       -1056964609, -1059802150, -1062149054, -1063902750, -1064986594,
       -1065353216, -1064986593, -1063902749, -1062149052, -1059802147,
       -1056964605, -1050556270, -1037439732, 1037439735, 1050556286,
       1056964605, 1059802151, 1062149057, 1063902751, 1064986593,
       1065353216>>,
     <<1065353216, 1065030846, 1064076126, 1062525745, 1060439283,
       1057896921, 1053028117, 1044891068, -859553070, -1044891074,
       -1053028120, -1057896924, -1060439283, -1062525746, -1064076128,
       -1065030847, -1065353216, -1065030846, -1064076126, -1062525744,
       -1060439281, -1057896918, -1053028107, -1044891078, 843898414,
       1044891080, 1053028123, 1057896925, 1060439287, 1062525745,
       1064076127, 1065030847, 1065353216>>
  >>

\* sin and cos of (step as f32 * PI) / n as f32, the angle of step `step`
\* out of n (theta for step = lat, and phi = (lon as f32 * 2. * PI) /
\* (2 * n) as f32 for step = lon, the same quotient); n = 0 makes the angle
\* 0 / 0 = NaN
SinStep(step, n) == IF n = 0 THEN NaN ELSE SinTable[n][step + 1]

CosStep(step, n) == IF n = 0 THEN NaN ELSE CosTable[n][step + 1]

\* the point (x, y, z) Mesh::sphere and create_3d_border compute for
\* (lat, lon)
SpherePoint(radius, lat_steps, center, lat, lon) ==
    LET sin_theta == SinStep(lat, lat_steps)
        cos_theta == CosStep(lat, lat_steps)
        sin_phi == SinStep(lon, lat_steps)
        cos_phi == CosStep(lon, lat_steps)
    IN  <<FAdd(FMul(FMul(radius, sin_theta), cos_phi), center[1]),
          FAdd(FMul(FMul(radius, sin_theta), sin_phi), center[2]),
          FAdd(FMul(radius, cos_theta), center[3])>>

\* the vertex Mesh::sphere pushes for (lat, lon)
SphereVertex(radius, lat_steps, center, lat, lon) ==
    [position |-> SpherePoint(radius, lat_steps, center, lat, lon)]

\* the k-th (1-based) index Mesh::sphere pushes
SphereIndex(lon_steps, k) ==
    LET quad == (k - 1) \div 6
        lat == quad \div lon_steps
        lon == quad % lon_steps
        current == lat * (lon_steps + 1) + lon
        next == current + lon_steps + 1
    IN  <<current, next, current + 1, next, next + 1, current + 1>>[((k - 1) % 6) + 1]

\* Mesh::sphere(radius, num_subdivisions, center, color)
MeshSphere(radius, num_subdivisions, center) ==
    LET lat_steps == num_subdivisions
        lon_steps == num_subdivisions * 2
    IN  [vertices |->
            [k \in 1..((lat_steps + 1) * (lon_steps + 1)) |->
                SphereVertex(radius, lat_steps, center,
                             (k - 1) \div (lon_steps + 1),
                             (k - 1) % (lon_steps + 1))],
         indices |->
            [k \in 1..(lat_steps * lon_steps * 6) |-> SphereIndex(lon_steps, k)],
         buffer_offset |-> 0,
         center |-> center]

\* variant that leaves the indices relative to the mesh's own vertices
PlaceMesh_unshifted(mesh, vertex_offset, index_offset) ==
    [mesh EXCEPT !.buffer_offset = index_offset]

\* a mesh as add_ball and create_3d_border append it: its indices moved by
\* vertex_offset, its buffer_offset set to index_offset
PlaceMesh(mesh, vertex_offset, index_offset) ==
    [mesh EXCEPT
        !.indices = [k \in DOMAIN mesh.indices |-> mesh.indices[k] + vertex_offset],
        !.buffer_offset = index_offset]

\* subdivisions add_ball gives its sphere
BALL_SUBDIVISIONS == 8

\* radius and subdivisions of the dots create_3d_border draws
DOT_RADIUS == Dec(15, 1000)

DOT_SUBDIVISIONS == 16

--------------------------------------------------------------------------
(* Bounds and inputs *)

MaxBalls == 3

MaxSteps == 2

\* static meshes (border dots) a scene may hold: the 66 of the program's
\* create_3d_border(BORDER_RADIUS, 5, BORDER_CENTER)
MaxStaticMeshes == 66

\* tolerance of the properties: the f32 0.001
Eps == 981668463

\* centers add_ball is given: the program's two (BALL_START and the
\* origin), a ball above BALL_START that pokes through the top of the
\* border, and two overlapping balls low on the right, the outer one just
\* inside the border
BallCenters ==
    {BALL_START, ZERO, DecVec(0, 82, 0, 100), DecVec(462, -616, 0, 1000),
     DecVec(48, -64, 0, 100)}

\* centers add_ball is given while the scene is set up with its border: the
\* program's two
SetupCenters == {BALL_START, ZERO}

BallRadii == {BALL_RADIUS}

\* the program's DT and a coarser time step
DtSet == {DT, Dec(5, 100)}

\* subdivisions of the border: the program's 5, and 2 and 4
BorderSubdivisions == {2, 4, 5}

--------------------------------------------------------------------------
(* Scene *)

NumBodies == Len(physics_bodies)

\* the pairs (b1, b2) the pair loop of update_physics visits, in order, as
\* <<i, b1, b2>> with b1 < i <= b2; <<n, 0, 0>> when the loop is over
NoPair(n) == <<n, 0, 0>>

FirstPair(n) == IF n >= 2 THEN <<1, 0, 1>> ELSE NoPair(n)

NextPair(c, n) ==
    IF c[3] + 1 < n THEN <<c[1], c[2], c[3] + 1>>
    ELSE IF c[2] + 1 < c[1] THEN <<c[1], c[2] + 1, c[1]>>
    ELSE IF c[1] + 1 < n THEN <<c[1] + 1, 0, c[1] + 1>>
    ELSE NoPair(n)

PairSet(n) == {p \in (0..(n - 1)) \X (0..(n - 1)) : p[1] < p[2]}

NoCalls(n) == [p \in PairSet(n) |-> 0]

Init ==
    /\ physics_bodies = << >>
    /\ static_meshes = << >>
    /\ dynamic_meshes = << >>
    /\ next_static_vertex = 0
    /\ next_static_index = 0
    /\ next_dynamic_vertex = 0
    /\ next_dynamic_index = 0
    /\ pc = "idle"
    /\ pass = 0
    /\ bi = 0
    /\ cur = <<0, 0, 0>>
    /\ dtv = 0
    /\ steps = 0
    /\ pre = << >>
    /\ pass_pre = << >>
    /\ last = [op |-> "none", a |-> 0, b |-> 0]
    /\ calls = NoCalls(0)

\* Scene::add_ball(radius, center, color), called while the scene is set up
add_ball(radius, center) ==
    /\ pc = "idle"
    /\ steps = 0
    /\ NumBodies < MaxBalls
    /\ LET mesh == MeshSphere(radius, BALL_SUBDIVISIONS, center)
       IN  /\ dynamic_meshes' =
                Append(dynamic_meshes,
                       PlaceMesh(mesh, next_dynamic_vertex, next_dynamic_index))
           /\ next_dynamic_vertex' = next_dynamic_vertex + Len(mesh.vertices)
           /\ next_dynamic_index' = next_dynamic_index + Len(mesh.indices)
    /\ physics_bodies' = Append(physics_bodies, PhysicsBodyNew(center, radius))
    /\ pre' = physics_bodies
    /\ last' = [op |-> "add_ball", a |-> NumBodies, b |-> 0]
    /\ UNCHANGED <<static_meshes, next_static_vertex, next_static_index,
                   pc, pass, bi, cur, dtv, steps, pass_pre, calls>>

\* the dots create_3d_border pushes, in the order of its two loops (dot k,
\* 1-based, is that of lat = (k - 1) / (lon_steps + 1) and lon = (k - 1) %
\* (lon_steps + 1)); every dot has as many vertices and indices as the
\* others, so the counters stand at their start plus (k - 1) times that
\* many when dot k is placed
BorderDots(radius, subdivisions, center, vertex_offset, index_offset) ==
    LET lat_steps == subdivisions
        lon_steps == subdivisions * 2
    IN  [k \in 1..((lat_steps + 1) * (lon_steps + 1)) |->
            LET dot == MeshSphere(DOT_RADIUS, DOT_SUBDIVISIONS,
                                  SpherePoint(radius, lat_steps, center,
                                              (k - 1) \div (lon_steps + 1),
                                              (k - 1) % (lon_steps + 1)))
            IN  PlaceMesh(dot, vertex_offset + (k - 1) * Len(dot.vertices),
                          index_offset + (k - 1) * Len(dot.indices))]

\* Scene::create_3d_border(radius, subdivisions, center), which the program
\* calls before it adds the first ball
create_3d_border(radius, subdivisions, center) ==
    /\ pc = "idle"
    /\ steps = 0
    /\ NumBodies = 0
    /\ Len(static_meshes) + (subdivisions + 1) * (subdivisions * 2 + 1)
          <= MaxStaticMeshes
    /\ LET dots == BorderDots(radius, subdivisions, center,
                              next_static_vertex, next_static_index)
       IN  /\ static_meshes' = static_meshes \o dots
           /\ next_static_vertex' =
                next_static_vertex + Len(dots) * Len(dots[1].vertices)
           /\ next_static_index' =
                next_static_index + Len(dots) * Len(dots[1].indices)
    /\ last' = [op |-> "create_3d_border", a |-> 0, b |-> 0]
    /\ UNCHANGED <<physics_bodies, dynamic_meshes, next_dynamic_vertex,
                   next_dynamic_index, pc, pass, bi, cur, dtv, steps, pre,
                   pass_pre, calls>>

\* variant of the velocity update that does not divide the force by the mass
IntegrateVelocity_undivided(b, dt) ==
    LET force == <<0, FMul(FNeg(GRAVITY), b.mass), 0>>
    IN  [b EXCEPT !.velocity = VAdd(b.velocity, VScale(force, dt))]

\* the integrator of update_physics: every velocity, then every position
IntegrateVelocity(b, dt) ==
    LET force == <<0, FMul(FNeg(GRAVITY), b.mass), 0>>
    IN  [b EXCEPT !.velocity = VAdd(b.velocity, VDiv(VScale(force, dt), b.mass))]

IntegratePosition(b, dt) ==
    [b EXCEPT !.pos = VAdd(b.pos, VScale(b.velocity, dt))]

Integrate(bodies, dt) ==
    LET vs == [k \in DOMAIN bodies |-> IntegrateVelocity(bodies[k], dt)]
    IN  [k \in DOMAIN bodies |-> IntegratePosition(vs[k], dt)]

\* Scene::update_physics(dt) up to its relaxation loop.  The driver passes
\* the same constant in every frame.
update_physics(dt) ==
    /\ pc = "idle"
    /\ steps < MaxSteps
    /\ steps = 0 \/ dt = dtv
    /\ physics_bodies' = Integrate(physics_bodies, dt)
    /\ dtv' = dt
    /\ steps' = steps + 1
    /\ pre' = physics_bodies
    /\ pass_pre' = Integrate(physics_bodies, dt)
    /\ last' = [op |-> "integrate", a |-> 0, b |-> 0]
    /\ bi' = 0
    /\ cur' = NoPair(NumBodies)
    /\ calls' = NoCalls(NumBodies)
    /\ IF NumBodies = 0
       THEN pc' = "sync" /\ pass' = SOLVER_ITERATIONS
       ELSE pc' = "border" /\ pass' = 0
    /\ UNCHANGED <<static_meshes, dynamic_meshes, next_static_vertex,
                   next_static_index, next_dynamic_vertex, next_dynamic_index>>

\* the end of one pass of the relaxation loop: the next pass, or the return
EndPass ==
    /\ pass' = pass + 1
    /\ bi' = 0
    /\ pc' = IF pass + 1 >= SOLVER_ITERATIONS THEN "sync" ELSE "border"
    /\ pass_pre' = IF pass + 1 >= SOLVER_ITERATIONS THEN pass_pre
                   ELSE physics_bodies'

\* one iteration of for_each(PhysicsBody::keep_within_border)
border_call ==
    /\ pc = "border"
    /\ bi < NumBodies
    /\ physics_bodies' =
          [physics_bodies EXCEPT ![bi + 1] = keep_within_border(@)]
    /\ pre' = physics_bodies
    /\ last' = [op |-> "keep_within_border", a |-> bi, b |-> 0]
    /\ calls' = IF bi = 0 THEN NoCalls(NumBodies) ELSE calls
    /\ IF bi + 1 < NumBodies
       THEN bi' = bi + 1 /\ UNCHANGED <<pc, pass, cur, pass_pre>>
       ELSE /\ cur' = FirstPair(NumBodies)
            /\ IF FirstPair(NumBodies) = NoPair(NumBodies)
               THEN EndPass
               ELSE pc' = "collide" /\ UNCHANGED <<pass, bi, pass_pre>>
    /\ UNCHANGED <<static_meshes, dynamic_meshes, next_static_vertex,
                   next_static_index, next_dynamic_vertex, next_dynamic_index,
                   dtv, steps>>

\* one iteration of the pair loop: b1.collide_with(b2)
collide_call ==
    /\ pc = "collide"
    /\ LET a == cur[2]
           b == cur[3]
           r == collide_with(physics_bodies[a + 1], physics_bodies[b + 1])
       IN  /\ physics_bodies' =
                [physics_bodies EXCEPT ![a + 1] = r[1], ![b + 1] = r[2]]
           /\ last' = [op |-> "collide_with", a |-> a, b |-> b]
           /\ calls' = [calls EXCEPT ![<<a, b>>] = @ + 1]
    /\ pre' = physics_bodies
    /\ cur' = NextPair(cur, NumBodies)
    /\ IF NextPair(cur, NumBodies) = NoPair(NumBodies)
       THEN EndPass
       ELSE UNCHANGED <<pc, pass, bi, pass_pre>>
    /\ UNCHANGED <<static_meshes, dynamic_meshes, next_static_vertex,
                   next_static_index, next_dynamic_vertex, next_dynamic_index,
                   dtv, steps>>

\* variant that moves the vertices and leaves the cached center behind
SyncMesh_stale_center(mesh, body) ==
    LET offset == VSub(body.pos, mesh.center)
    IN  [mesh EXCEPT
            !.vertices = [k \in DOMAIN mesh.vertices |->
                            [position |-> VAdd(mesh.vertices[k].position, offset)]]]

\* what update_dynamic_vertices does to one mesh and its body
SyncMesh(mesh, body) ==
    LET offset == VSub(body.pos, mesh.center)
    IN  [mesh EXCEPT
            !.vertices = [k \in DOMAIN mesh.vertices |->
                            [position |-> VAdd(mesh.vertices[k].position, offset)]],
            !.center = body.pos]

Min(x, y) == IF x <= y THEN x ELSE y

\* Scene::update_dynamic_vertices, which the driver calls after update_physics
update_dynamic_vertices ==
    /\ pc = "sync"
    /\ dynamic_meshes' =
          [k \in DOMAIN dynamic_meshes |->
              IF k <= Min(Len(dynamic_meshes), NumBodies)
              THEN SyncMesh(dynamic_meshes[k], physics_bodies[k])
              ELSE dynamic_meshes[k]]
    /\ pc' = "idle"
    /\ pre' = physics_bodies
    /\ last' = [op |-> "update_dynamic_vertices", a |-> 0, b |-> 0]
    /\ UNCHANGED <<physics_bodies, static_meshes, next_static_vertex,
                   next_static_index, next_dynamic_vertex, next_dynamic_index,
                   pass, bi, cur, dtv, steps, pass_pre, calls>>

\* the driver: main sets the scene up (the border, then the balls) and
\* then runs update_physics and update_dynamic_vertices frame after frame
Next ==
    \/ create_3d_border(BORDER_RADIUS, 5, BORDER_CENTER)
    \/ \E radius \in BallRadii, center \in BallCenters : add_ball(radius, center)
    \/ \E dt \in DtSet : update_physics(dt)
    \/ border_call
    \/ collide_call
    \/ update_dynamic_vertices

\* the scene set up with its border and balls, then stepped frame after
\* frame
Spec == Init /\ [][Next]_vars

NextSetup ==
    \/ \E radius \in BallRadii, center \in SetupCenters : add_ball(radius, center)
    \/ \E subdivisions \in BorderSubdivisions :
          create_3d_border(BORDER_RADIUS, subdivisions, BORDER_CENTER)

\* the scene's construction, border included
SpecSetup == Init /\ [][NextSetup]_vars

--------------------------------------------------------------------------
(* One call of keep_within_border or collide_with on bodies of any state *)

UnitPositions ==
    {ZERO, DecVec(-4, 0, 0, 100), DecVec(4, 0, 0, 100), DecVec(-3, 0, 0, 100),
     DecVec(3, 0, 0, 100), DecVec(2, 3, 6, 100), DecVec(0, 82, 0, 100),
     DecVec(492, -656, 0, 1000), DecVec(6, 6, 6, 10)}

UnitVelocities ==
    {ZERO, DecVec(1, 0, 0, 1), DecVec(-1, 0, 0, 1), DecVec(3, -5, 2, 10)}

\* the program's radius and one larger than the border's
UnitRadii == {BALL_RADIUS, Dec(9, 10)}

\* the mass of every ball of the program, 1.0, and 0.3
UnitMasses == {Dec(3, 10), One}

UnitBodies ==
    [pos : UnitPositions, radius : UnitRadii, velocity : UnitVelocities,
     mass : UnitMasses]

InitUnit ==
    /\ physics_bodies \in {<<s, o>> : s \in UnitBodies, o \in UnitBodies}
    /\ static_meshes = << >>
    /\ dynamic_meshes = << >>
    /\ next_static_vertex = 0
    /\ next_static_index = 0
    /\ next_dynamic_vertex = 0
    /\ next_dynamic_index = 0
    /\ pc = "unit"
    /\ pass = 0
    /\ bi = 0
    /\ cur = <<0, 0, 0>>
    /\ dtv = 0
    /\ steps = 0
    /\ pre = << >>
    /\ pass_pre = << >>
    /\ last = [op |-> "none", a |-> 0, b |-> 0]
    /\ calls = NoCalls(0)

\* physics_bodies[0].keep_within_border(), and the same call once more
\* immediately after it
unit_keep_within_border ==
    /\ \/ pc = "unit"
       \/ pc = "unit_done" /\ last.op = "keep_within_border"
    /\ physics_bodies' = [physics_bodies EXCEPT ![1] = keep_within_border(@)]
    /\ pre' = physics_bodies
    /\ last' = [op |-> "keep_within_border", a |-> 0, b |-> 0]
    /\ pc' = IF pc = "unit" THEN "unit_done" ELSE "unit_twice"
    /\ UNCHANGED <<static_meshes, dynamic_meshes, next_static_vertex,
                   next_static_index, next_dynamic_vertex, next_dynamic_index,
                   pass, bi, cur, dtv, steps, pass_pre, calls>>

\* physics_bodies[0].collide_with(physics_bodies[1])
unit_collide_with ==
    /\ pc = "unit"
    /\ LET r == collide_with(physics_bodies[1], physics_bodies[2])
       IN  physics_bodies' = <<r[1], r[2]>>
    /\ pre' = physics_bodies
    /\ last' = [op |-> "collide_with", a |-> 0, b |-> 1]
    /\ pc' = "unit_done"
    /\ UNCHANGED <<static_meshes, dynamic_meshes, next_static_vertex,
                   next_static_index, next_dynamic_vertex, next_dynamic_index,
                   pass, bi, cur, dtv, steps, pass_pre, calls>>

NextUnit ==
    \/ unit_keep_within_border
    \/ unit_collide_with

SpecUnit == InitUnit /\ [][NextUnit]_vars

--------------------------------------------------------------------------
(* Steps of a scene of two bodies of any mass and velocity *)

\* masses, one of them (0.3) no power of two
StepMasses == {Dec(3, 10), One, Two}

StepBodies ==
    [pos : {ZERO, DecVec(3, 0, 0, 100), DecVec(0, 82, 0, 100)},
     radius : {BALL_RADIUS}, velocity : {ZERO, DecVec(3, -5, 2, 10)},
     mass : StepMasses]

\* the dynamic meshes of the bodies, as add_ball lays them out
MeshesOf(bodies) ==
    [k \in DOMAIN bodies |->
        LET mesh == MeshSphere(bodies[k].radius, BALL_SUBDIVISIONS, bodies[k].pos)
        IN  PlaceMesh(mesh, (k - 1) * Len(mesh.vertices),
                      (k - 1) * Len(mesh.indices))]

InitStep ==
    /\ physics_bodies \in {<<s, o>> : s \in StepBodies, o \in StepBodies}
    /\ static_meshes = << >>
    /\ dynamic_meshes = MeshesOf(physics_bodies)
    /\ next_static_vertex = 0
    /\ next_static_index = 0
    /\ next_dynamic_vertex =
          Len(physics_bodies) * Len(dynamic_meshes[1].vertices)
    /\ next_dynamic_index =
          Len(physics_bodies) * Len(dynamic_meshes[1].indices)
    /\ pc = "idle"
    /\ pass = 0
    /\ bi = 0
    /\ cur = <<0, 0, 0>>
    /\ dtv = 0
    /\ steps = 0
    /\ pre = << >>
    /\ pass_pre = << >>
    /\ last = [op |-> "none", a |-> 0, b |-> 0]
    /\ calls = NoCalls(0)

NextStep ==
    \/ \E dt \in DtSet : update_physics(dt)
    \/ border_call
    \/ collide_call
    \/ update_dynamic_vertices

SpecStep == InitStep /\ [][NextStep]_vars


--------------------------------------------------------------------------
(* Vocabulary of the properties *)

\* body k (0-based, as in the code) now and before the last call
Body(k) == physics_bodies[k + 1]

PreBody(k) == pre[k + 1]

\* distance(a.pos, b.pos) < a.radius + b.radius
PairOverlaps(s, o) == FLt(Distance(s.pos, o.pos), FAdd(s.radius, o.radius))

\* dot(b.velocity - a.velocity, normalize(b.pos - a.pos))
NormalVelocity(s, o) ==
    Dot(VSub(o.velocity, s.velocity), Normalize(VSub(o.pos, s.pos)))

\* the penetration depth of a pair
Penetration(s, o) == FSub(FAdd(s.radius, o.radius), Distance(s.pos, o.pos))

\* a == b on f32: FALSE as soon as one side is NaN, and -0.0 == 0.0
FEq(a, b) == ~IsNaN(a) /\ ~IsNaN(b) /\ Ord(a) = Ord(b)

\* u == v on Vec3
VecEq(u, v) == \A c \in 1..3 : FEq(u[c], v[c])

\* a and b are the same value (the same NaN included) or a == b
SameF(a, b) == a = b \/ FEq(a, b)

\* u and v differ by at most Eps in every component
VecNear(u, v) ==
    /\ ~VecIsNaN(u) /\ ~VecIsNaN(v)
    /\ \A c \in 1..3 : FLe(FAbs(FSub(u[c], v[c])), Eps)

\* u and v are the same (NaN and infinities included) or differ by at most
\* Eps, in every component
VecSameOrNear(u, v) ==
    \A c \in 1..3 : SameF(u[c], v[c]) \/ FLe(FAbs(FSub(u[c], v[c])), Eps)

\* a step (update_physics, then update_dynamic_vertices) has just ended
StepDone == pc = "idle" /\ steps > 0

\* a relaxation pass has just ended
PassEnded == pc = "sync" \/ (pc = "border" /\ bi = 0 /\ pass > 0)

--------------------------------------------------------------------------
(* C1 *)

\* C1: after any step every body satisfies distance(pos, BORDER_CENTER) +
\* radius <= BORDER_RADIUS + eps, also a body that a pairwise positional
\* correction moved in the last relaxation pass.  Stated of the bodies whose
\* position is a number, so that a violation is the claim's own and not the
\* NaN of C5.
C1_BoundaryContainment ==
    StepDone =>
        \A k \in 1..NumBodies :
            ~VecIsNaN(physics_bodies[k].pos) =>
                FLe(FAdd(Distance(physics_bodies[k].pos, BORDER_CENTER),
                         physics_bodies[k].radius),
                    FAdd(BORDER_RADIUS, Eps))

--------------------------------------------------------------------------
(* C2 *)

\* C2: after the final relaxation pass of a step, every pair is at distance
\* >= a.radius + b.radius - eps or its penetration is strictly smaller than
\* before that pass, separating pairs and scenes of three or more bodies
\* included.  Stated of the pairs whose positions are numbers, so that a
\* violation is the claim's own and not the NaN of C5.
C2_NoSustainedInterpenetration ==
    pc = "sync" =>
        \A p \in PairSet(NumBodies) :
            LET s == Body(p[1])
                o == Body(p[2])
                s0 == pass_pre[p[1] + 1]
                o0 == pass_pre[p[2] + 1]
            IN  (~VecIsNaN(s.pos) /\ ~VecIsNaN(o.pos)) =>
                    \/ FGe(Distance(s.pos, o.pos),
                           FSub(FAdd(s.radius, o.radius), Eps))
                    \/ FLt(Penetration(s, o), Penetration(s0, o0))

--------------------------------------------------------------------------
(* C3 *)

\* C3: in each relaxation pass collide_with is invoked exactly once for
\* every unordered pair (i, j), i < j: never more than once, and once when
\* the pass has ended.
C3_EachPairOncePerPass ==
    /\ \A p \in DOMAIN calls : calls[p] <= 1
    /\ PassEnded => \A p \in PairSet(NumBodies) : calls[p] = 1

--------------------------------------------------------------------------
(* C4 *)

Cross(u, v) ==
    <<FSub(FMul(u[2], v[3]), FMul(u[3], v[2])),
      FSub(FMul(u[3], v[1]), FMul(u[1], v[3])),
      FSub(FMul(u[1], v[2]), FMul(u[2], v[1]))>>

\* equal radius, unit mass, equal-and-opposite velocities along the line of
\* centers, approaching
HeadOn(s, o) ==
    /\ FEq(s.radius, o.radius)
    /\ FEq(s.mass, One) /\ FEq(o.mass, One)
    /\ ~VecEq(s.velocity, ZERO)
    /\ VecEq(s.velocity, VNeg(o.velocity))
    /\ VecEq(Cross(s.velocity, VSub(o.pos, s.pos)), ZERO)
    /\ FGt(Dot(s.velocity, VSub(o.pos, s.pos)), 0)

\* v is v0 with its sign flipped and its magnitude multiplied by 0.95
Bounced(v0, v) == VecNear(v, VScale(VNeg(v0), RESTITUTION))

\* C4 as stated (Scenario B): two head-on bodies that are exactly touching
\* leave one collide_with call with their velocities flipped and scaled by
\* 0.95.
C4_ScenarioB_Touching ==
    (/\ last.op = "collide_with"
     /\ HeadOn(PreBody(last.a), PreBody(last.b))
     /\ FEq(Distance(PreBody(last.a).pos, PreBody(last.b).pos),
            FAdd(PreBody(last.a).radius, PreBody(last.b).radius)))
    => /\ Bounced(PreBody(last.a).velocity, Body(last.a).velocity)
       /\ Bounced(PreBody(last.b).velocity, Body(last.b).velocity)

\* C4 as amended: two head-on bodies that overlap (0 < distance < sum of
\* the radii) leave one collide_with call with their velocities flipped and
\* scaled by 0.95; two that are exactly touching leave it unchanged.
C4_ScenarioB_Overlapping ==
    (last.op = "collide_with" /\ HeadOn(PreBody(last.a), PreBody(last.b))) =>
        LET d == Distance(PreBody(last.a).pos, PreBody(last.b).pos)
            sum == FAdd(PreBody(last.a).radius, PreBody(last.b).radius)
        IN  /\ (FGt(d, 0) /\ FLt(d, sum)) =>
                 /\ Bounced(PreBody(last.a).velocity, Body(last.a).velocity)
                 /\ Bounced(PreBody(last.b).velocity, Body(last.b).velocity)
            /\ FEq(d, sum) => physics_bodies = pre

\* collide_with has acted on two overlapping head-on bodies
C4_Witness ==
    /\ last.op = "collide_with"
    /\ HeadOn(PreBody(last.a), PreBody(last.b))
    /\ FGt(Distance(PreBody(last.a).pos, PreBody(last.b).pos), 0)
    /\ FLt(Distance(PreBody(last.a).pos, PreBody(last.b).pos),
           FAdd(PreBody(last.a).radius, PreBody(last.b).radius))

--------------------------------------------------------------------------
(* C5 *)

\* C5: no body ever holds an invalid (NaN) position or velocity, pairs of
\* coincident bodies being skipped by collide_with.
C5_NoInvalidVectors ==
    \A k \in 1..NumBodies :
        /\ ~VecIsNaN(physics_bodies[k].pos)
        /\ ~VecIsNaN(physics_bodies[k].velocity)

--------------------------------------------------------------------------
(* C6 *)

\* C6 (Scenario C): keep_within_border on a body whose center is the border
\* center, whatever its radius, leaves its position at the center and its
\* velocity unchanged, neither being NaN.
C6_ScenarioC ==
    (last.op = "keep_within_border" /\ VecEq(PreBody(last.a).pos, BORDER_CENTER))
    => /\ VecEq(Body(last.a).pos, BORDER_CENTER)
       /\ Body(last.a).velocity = PreBody(last.a).velocity
       /\ ~VecIsNaN(Body(last.a).pos)
       /\ ~VecIsNaN(Body(last.a).velocity)

--------------------------------------------------------------------------
(* C7 *)

\* C7: collide_with on two bodies that overlap and whose relative velocity
\* along the collision normal is strictly positive leaves both velocities
\* unchanged.
C7_SeparatingNoOp ==
    (/\ last.op = "collide_with"
     /\ PairOverlaps(PreBody(last.a), PreBody(last.b))
     /\ FGt(NormalVelocity(PreBody(last.a), PreBody(last.b)), 0))
    => /\ Body(last.a).velocity = PreBody(last.a).velocity
       /\ Body(last.b).velocity = PreBody(last.b).velocity

\* collide_with has acted on an overlapping, separating pair
C7_Witness ==
    /\ last.op = "collide_with"
    /\ PairOverlaps(PreBody(last.a), PreBody(last.b))
    /\ FGt(NormalVelocity(PreBody(last.a), PreBody(last.b)), 0)

--------------------------------------------------------------------------
(* C8 *)

\* C8: after collide_with on an overlapping pair that is not separating
\* (any positive masses), and after keep_within_border on a body that
\* violates the border, the relative normal velocity is in magnitude at
\* most 0.95 times what it was before the contact (up to eps).
C8_EnergyNonIncrease ==
    /\ (/\ last.op = "collide_with"
        /\ PairOverlaps(PreBody(last.a), PreBody(last.b))
        /\ ~FGt(NormalVelocity(PreBody(last.a), PreBody(last.b)), 0))
       => LET n == Normalize(VSub(PreBody(last.b).pos, PreBody(last.a).pos))
              before == NormalVelocity(PreBody(last.a), PreBody(last.b))
              after == Dot(VSub(Body(last.b).velocity, Body(last.a).velocity), n)
          IN  FLe(FAbs(after), FAdd(FMul(RESTITUTION, FAbs(before)), Eps))
    /\ (/\ last.op = "keep_within_border"
        /\ FGt(FAdd(Distance(PreBody(last.a).pos, BORDER_CENTER),
                    PreBody(last.a).radius), BORDER_RADIUS))
       => LET n == Normalize(VSub(PreBody(last.a).pos, BORDER_CENTER))
              before == Dot(PreBody(last.a).velocity, n)
              after == Dot(Body(last.a).velocity, n)
          IN  FLe(FAbs(after), FAdd(FMul(RESTITUTION, FAbs(before)), Eps))

\* C8 for the contacts that have a normal (the bodies of the pair are not
\* coincident, the body is not at the border center): this part holds
C8_EnergyNonIncreaseWithNormal ==
    /\ (/\ last.op = "collide_with"
        /\ PairOverlaps(PreBody(last.a), PreBody(last.b))
        /\ FLe(NormalVelocity(PreBody(last.a), PreBody(last.b)), 0))
       => LET n == Normalize(VSub(PreBody(last.b).pos, PreBody(last.a).pos))
              before == NormalVelocity(PreBody(last.a), PreBody(last.b))
              after == Dot(VSub(Body(last.b).velocity, Body(last.a).velocity), n)
          IN  FLe(FAbs(after), FAdd(FMul(RESTITUTION, FAbs(before)), Eps))
    /\ (/\ last.op = "keep_within_border"
        /\ FGt(FAdd(Distance(PreBody(last.a).pos, BORDER_CENTER),
                    PreBody(last.a).radius), BORDER_RADIUS)
        /\ ~VecEq(PreBody(last.a).pos, BORDER_CENTER))
       => LET n == Normalize(VSub(PreBody(last.a).pos, BORDER_CENTER))
              before == Dot(PreBody(last.a).velocity, n)
              after == Dot(Body(last.a).velocity, n)
          IN  FLe(FAbs(after), FAdd(FMul(RESTITUTION, FAbs(before)), Eps))

--------------------------------------------------------------------------
(* C9 *)

\* the vertices Mesh::sphere gave dynamic mesh m, up to a translation
CreatedVertices(m) ==
    MeshSphere(physics_bodies[m].radius, BALL_SUBDIVISIONS, ZERO).vertices

\* the dynamic meshes have just been written: by add_ball, which creates
\* one, or by update_dynamic_vertices, which moves them; no other operation
\* touches a vertex
MeshesWritten == last.op \in {"add_ball", "update_dynamic_vertices"}

\* C9: the difference between any two vertex positions of a dynamic mesh is
\* always what it was when the mesh was created by Mesh::sphere (up to eps,
\* for the rounding of the additions).  It is stated of every vertex and the
\* mesh's first one: the difference of any two vertices is the difference
\* of their differences to the first.
C9_MeshRigidity ==
    MeshesWritten =>
        \A m \in 1..Len(dynamic_meshes) :
            LET first == dynamic_meshes[m].vertices[1].position
                first0 == CreatedVertices(m)[1].position
            IN  \A i \in DOMAIN dynamic_meshes[m].vertices :
                    VecNear(VSub(dynamic_meshes[m].vertices[i].position, first),
                            VSub(CreatedVertices(m)[i].position, first0))

--------------------------------------------------------------------------
(* C10 *)

RECURSIVE VertexStart(_, _)
\* the position of mesh k's first vertex in the flattened vertex sequence
VertexStart(meshes, k) ==
    IF k = 1 THEN 0
    ELSE VertexStart(meshes, k - 1) + Len(meshes[k - 1].vertices)

RECURSIVE IndexStart(_, _)
\* the position of mesh k's first index in the flattened index sequence
IndexStart(meshes, k) ==
    IF k = 1 THEN 0
    ELSE IndexStart(meshes, k - 1) + Len(meshes[k - 1].indices)

BufferBookkeeping(meshes) ==
    \A k \in 1..Len(meshes) :
        LET m == meshes[k]
            indices == m.indices
            first == VertexStart(meshes, k)
            end == first + Len(m.vertices)
        IN  /\ \A j \in 1..Len(indices) :
                  first <= indices[j] /\ indices[j] < end
            /\ m.buffer_offset = IndexStart(meshes, k)
            /\ \A k2 \in 1..Len(meshes) :
                  k2 # k =>
                     \/ m.buffer_offset + Len(m.indices) <= meshes[k2].buffer_offset
                     \/ meshes[k2].buffer_offset + Len(meshes[k2].indices)
                           <= m.buffer_offset

\* C10: in each buffer every index of a mesh lies in the range of that
\* mesh's own vertices in the flattened vertex sequence, each buffer_offset
\* is the position of the mesh's first index in the flattened index
\* sequence, and the index ranges of the meshes do not overlap.
C10_IndexBookkeeping ==
    /\ BufferBookkeeping(static_meshes)
    /\ BufferBookkeeping(dynamic_meshes)

\* the program's border of 66 dots and three balls have been added
C10_Witness ==
    /\ Len(static_meshes) >= 66
    /\ Len(dynamic_meshes) >= 3

--------------------------------------------------------------------------
(* C11 *)

\* a step of update_dynamic_vertices
SyncStep == pc = "sync" /\ pc' = "idle"

\* a step of add_ball
AddBallStep == Len(physics_bodies') = NumBodies + 1

\* C11: dynamic meshes and bodies are always equal in number and paired by
\* creation order (add_ball appends one mesh and one body, the mesh centered
\* at the body); every update_dynamic_vertices call leaves each mesh's
\* center equal to its body's position, every vertex displaced by exactly
\* body.pos - the previous center, and every body as it was.
C11_GeometrySync ==
    /\ [](Len(dynamic_meshes) = NumBodies)
    /\ [][/\ AddBallStep =>
               /\ Len(dynamic_meshes') = Len(dynamic_meshes) + 1
               /\ SubSeq(dynamic_meshes', 1, Len(dynamic_meshes)) = dynamic_meshes
               /\ SubSeq(physics_bodies', 1, NumBodies) = physics_bodies
               /\ dynamic_meshes'[NumBodies + 1].center
                     = physics_bodies'[NumBodies + 1].pos
          /\ SyncStep =>
               /\ physics_bodies' = physics_bodies
               /\ \A k \in 1..NumBodies :
                     LET delta == VSub(physics_bodies[k].pos, dynamic_meshes[k].center)
                     IN  /\ dynamic_meshes'[k].center = physics_bodies'[k].pos
                         /\ \A i \in DOMAIN dynamic_meshes[k].vertices :
                               dynamic_meshes'[k].vertices[i].position
                                 = VAdd(dynamic_meshes[k].vertices[i].position, delta)
                         /\ dynamic_meshes'[k].indices = dynamic_meshes[k].indices
         ]_vars

\* update_dynamic_vertices has just moved the meshes of two or more bodies,
\* one of them away from where add_ball put it
C11_Witness ==
    /\ last.op = "update_dynamic_vertices"
    /\ NumBodies >= 2
    /\ \E k \in 1..NumBodies :
          /\ ~VecIsNaN(physics_bodies[k].pos)
          /\ physics_bodies[k].pos \notin BallCenters
          /\ dynamic_meshes[k].center = physics_bodies[k].pos

--------------------------------------------------------------------------
(* C12 *)

\* the component of v along the unit vector d, and the rest of v
Along(v, d) == VScale(d, Dot(v, d))

Tangential(v, d) == VSub(v, Along(v, d))

\* keep_within_border has just been called (on body last.a), and the
\* body's center was not the border center
BorderCalled ==
    /\ last.op = "keep_within_border"
    /\ ~VecIsNaN(PreBody(last.a).pos)
    /\ FGt(Distance(PreBody(last.a).pos, BORDER_CENTER), 0)

\* the body stuck out of the border before the call
StuckOut ==
    FGt(FAdd(Distance(PreBody(last.a).pos, BORDER_CENTER), PreBody(last.a).radius),
        BORDER_RADIUS)

\* the result C12 describes for a body that stuck out: same direction,
\* distance BORDER_RADIUS - radius, velocity mirrored and scaled by 0.95
\* (all up to eps)
Repositioned ==
    LET d == Normalize(VSub(PreBody(last.a).pos, BORDER_CENTER))
    IN  /\ VecNear(Normalize(VSub(Body(last.a).pos, BORDER_CENTER)), d)
        /\ FLe(FAbs(FSub(Distance(Body(last.a).pos, BORDER_CENTER),
                         FSub(BORDER_RADIUS, Body(last.a).radius))), Eps)
        /\ FLe(FAbs(FAdd(Dot(Body(last.a).velocity, d),
                         FMul(ELASTICITY, Dot(PreBody(last.a).velocity, d)))), Eps)
        /\ VecNear(Tangential(Body(last.a).velocity, d),
                   VScale(Tangential(PreBody(last.a).velocity, d), ELASTICITY))

\* C12: keep_within_border on a body with distance > 0 that sticks out of
\* the border leaves it in the same direction at distance BORDER_RADIUS -
\* radius with its velocity mirrored across the tangent plane and scaled by
\* 0.95; on a body within the border it changes nothing; and a second
\* immediate call is a no-op for a body with radius <= BORDER_RADIUS.
C12_BorderConstraintResult ==
    /\ (BorderCalled /\ pc = "unit_done") =>
          IF StuckOut THEN Repositioned ELSE physics_bodies = pre
    /\ (BorderCalled /\ pc = "unit_twice"
            /\ FLe(PreBody(last.a).radius, BORDER_RADIUS)) =>
          physics_bodies = pre

\* the part of C12 that holds: the result of the first call on a body
\* with radius <= BORDER_RADIUS
C12_FirstCallResult ==
    (BorderCalled /\ pc = "unit_done" /\ FLe(PreBody(last.a).radius, BORDER_RADIUS)) =>
        IF StuckOut THEN Repositioned ELSE physics_bodies = pre

\* the last sentence of C12 alone: a second immediate call changes nothing
\* for a body with radius <= BORDER_RADIUS.  It fails: the repositioned body
\* can test as outside again by one rounding step.
C12_SecondCallNoOp ==
    (BorderCalled /\ pc = "unit_twice"
        /\ FLe(PreBody(last.a).radius, BORDER_RADIUS)) =>
        physics_bodies = pre

--------------------------------------------------------------------------
(* C13 *)

\* the integrator has just run: update_physics stands before its
\* relaxation loop
Integrated == last.op = "integrate"

\* C13: at the start of every update_physics(dt), once per step and before
\* any constraint is applied, each body's velocity becomes velocity +
\* (0, -9.8, 0) * dt whatever its mass, and its position becomes position +
\* the new velocity * dt; the x and z components of the velocity, the
\* radius and the mass are kept.  The velocity is compared up to eps: the
\* code computes ((-9.8 * mass) * dt) / mass, which rounds differently from
\* -9.8 * dt for a mass that is no power of two.
C13_Integrator ==
    /\ [](Integrated =>
            /\ pass = 0 \/ NumBodies = 0
            /\ \A p \in DOMAIN calls : calls[p] = 0
            /\ \A k \in 1..NumBodies :
                  LET b0 == pre[k]
                      b == physics_bodies[k]
                  IN  /\ VecSameOrNear(b.velocity,
                            VAdd(b0.velocity,
                                 <<0, FMul(FNeg(GRAVITY), dtv), 0>>))
                      /\ b.pos = VAdd(b0.pos, VScale(b.velocity, dtv))
                      /\ SameF(b.velocity[1], b0.velocity[1])
                      /\ SameF(b.velocity[3], b0.velocity[3])
                      /\ b.radius = b0.radius
                      /\ b.mass = b0.mass)
    /\ [][(last'.op = "integrate") <=> (steps' = steps + 1)]_vars

\* the integrator has run on a moving body whose mass is not 1, in a step
\* after the first
C13_Witness ==
    /\ Integrated
    /\ steps >= 2
    /\ \E k \in 1..NumBodies :
          /\ physics_bodies[k].mass # One
          /\ ~VecIsNaN(physics_bodies[k].pos)
          /\ physics_bodies[k].pos # pre[k].pos

--------------------------------------------------------------------------
(* C14 *)

\* C14: whenever keep_within_border repositions a body (distance > 0 and
\* distance + radius > BORDER_RADIUS) the body's velocity has no outward
\* component afterwards, dot(velocity, pos - BORDER_CENTER) <= 0 (up to
\* eps), also when the body was moving inward before the call.  Stated of
\* the bodies whose position and velocity are numbers, so that a violation
\* is the claim's own and not the NaN of C5.
C14_NoOutwardVelocity ==
    (/\ last.op = "keep_within_border"
     /\ ~VecIsNaN(PreBody(last.a).pos)
     /\ ~VecIsNaN(PreBody(last.a).velocity)
     /\ FGt(Distance(PreBody(last.a).pos, BORDER_CENTER), 0)
     /\ FGt(FAdd(Distance(PreBody(last.a).pos, BORDER_CENTER),
                 PreBody(last.a).radius), BORDER_RADIUS))
    => FLe(Dot(Body(last.a).velocity, VSub(Body(last.a).pos, BORDER_CENTER)),
           Eps)


====
